---- MODULE Spec2Model ----
(***************************************************************************)
(* Model of app_v24.py: the RNC (non-conformance record) application.      *)
(*                                                                         *)
(* The relational store is three tables (inspecoes, fotos, peps), each a   *)
(* set of rows with AUTOINCREMENT ids.  The data-layer functions are       *)
(* operators over tables; the Streamlit page is a set of sessions, each    *)
(* one script run at a time, whose widgets are enabled by what the         *)
(* previous run rendered.                                                  *)
(*                                                                         *)
(* Specifications:                                                         *)
(*   Spec      the page driven by two sessions (login, menu, forms)        *)
(*             whose script runs interleave; no upload, no failure;        *)
(*   SpecTx    the page driven by one session, with uploads, one step per  *)
(*             committed transaction, each of which may fail;              *)
(*   SpecApi   the data-layer functions called directly, with every        *)
(*             argument value, and the Nova RNC form;                      *)
(*   SpecFetch the filtered listing over tables of every status;           *)
(*   SpecPeps  add_peps_bulk called with every list of raw codes.          *)
(***************************************************************************)
EXTENDS Integers, Sequences, FiniteSets, TLC

VARIABLES
    inspecoes,   \* table inspecoes: set of rows
    fotos,       \* table fotos: set of rows
    peps,        \* table peps: set of rows
    now,         \* the clock read by datetime.now()
    is_quality,  \* st.session_state.is_quality, per session
    menu,        \* the sidebar radio's value, per session
    row,         \* the row the session's last script run displayed (NoRow: none)
    pend,        \* the close/reopen call a running script has still to make or end
    event,       \* the last call or user event, with its outcome
    submitted,   \* every raw code ever handed to add_peps_bulk
    df           \* the listing the last filtered fetch displayed (sequence of rows)

vars == <<inspecoes, fotos, peps, now, is_quality, menu, row, pend, event,
          submitted, df>>

----------------------------------------------------------------------------
(* Bounds of the model *)

\* records the sessions may create
MaxRNC == 1
\* readings of the clock by the sessions, i.e. close/reopen submissions
MaxClock == 3
\* records created by direct calls of the data layer
MaxRows == 1
\* close/reopen calls made directly
MaxCalls == 2
\* records of the table the filtered listing is taken from
MaxListed == 3
\* length of a list of codes handed to add_peps_bulk
MaxCodes == 3

----------------------------------------------------------------------------
(* Program constants and input domains *)

Sessions == {"s1", "s2"}

QUALITY_PASS == "qualidade123"
Passwords == {QUALITY_PASS, "errada"}

STATUS_OPTS == {"Aberta", "Em análise", "Em ação", "Bloqueada", "Encerrada"}
EFICACIA_OPTS == {"A verificar", "Eficaz", "Não eficaz"}

NOVA == "Nova RNC"
CONSULTAR == "Consultar/Encerrar/Reabrir"
EXPORTAR == "Exportar"
GERENCIAR == "Gerenciar PEPs"

\* variant: the same menu for every profile
MenuOptions_same(quality) == <<NOVA, CONSULTAR, EXPORTAR, GERENCIAR>>

\* options of the sidebar radio, by profile
MenuOptions(quality) ==
    IF quality THEN <<NOVA, CONSULTAR, EXPORTAR, GERENCIAR>>
    ELSE <<CONSULTAR, EXPORTAR>>

\* SQL NULL; a nullable column holds NULL or <<value>>
NULL == <<>>
Some(v) == <<v>>

\* names typed into "Encerrada por" / "Reaberta por", notes and reasons
Names == {"ana"}
Notes == {"ok"}
\* uploaded files, already converted by files_to_images
ImageLists == {<<>>, <<"f1.jpg">>}
NoImages == {<<>>}
\* the verdict picked in "Verificação de eficácia"
Verdicts == {"Eficaz"}
\* por arguments of direct calls
Callers == {"ana", "bia"}

Range(s) == {s[i] : i \in DOMAIN s}

Max(S) == CHOOSE m \in S : \A x \in S : x <= m

Ids(tab) == {r.id : r \in tab}

\* AUTOINCREMENT: one more than the largest id ever used (rows are never deleted)
NextId(tab) == IF tab = {} THEN 1 ELSE Max(Ids(tab)) + 1

RowOf(tab, iid) == CHOOSE r \in tab : r.id = iid

----------------------------------------------------------------------------
(* Data layer *)

\* variant: the status column always takes its default
NewInspecao_default(iid, rec) ==
    [id |-> iid, status |-> "Aberta",
     encerrada_em |-> NULL, encerrada_por |-> NULL,
     encerramento_obs |-> NULL, eficacia |-> NULL,
     reaberta_em |-> NULL, reaberta_por |-> NULL, reabertura_motivo |-> NULL]

\* the row INSERT INTO inspecoes creates: the columns the statement names
\* take the values of rec, the others their default NULL
NewInspecao(iid, rec) ==
    [id |-> iid, status |-> rec.status,
     encerrada_em |-> NULL, encerrada_por |-> NULL,
     encerramento_obs |-> NULL, eficacia |-> NULL,
     reaberta_em |-> NULL, reaberta_por |-> NULL, reabertura_motivo |-> NULL]

RECURSIVE add_photos(_, _, _, _)
\* one INSERT INTO fotos per image, in one transaction
add_photos(fot, iid, images, tipo) ==
    IF images = <<>> THEN fot
    ELSE add_photos(
            fot \cup {[id |-> NextId(fot), inspecao_id |-> iid,
                       name |-> Head(images), tipo |-> tipo]},
            iid, Tail(images), tipo)

\* rec is stored as given, then the photos tagged 'abertura'; one transaction
insert_inspecao(tab, fot, rec, images) ==
    LET inspecao_id == NextId(tab)
    IN  [inspecoes |-> tab \cup {NewInspecao(inspecao_id, rec)},
         fotos |-> add_photos(fot, inspecao_id, images, "abertura"),
         id |-> inspecao_id]

\* variant: an UPDATE that leaves a row already 'Encerrada' alone
encerrar_update_guarded(tab, iid, dt, por, obs, ef) ==
    {IF r.id = iid /\ r.status # "Encerrada"
       THEN [r EXCEPT !.status = "Encerrada",
                      !.encerrada_em = Some(dt),
                      !.encerrada_por = Some(por),
                      !.encerramento_obs = Some(obs),
                      !.eficacia = Some(ef)]
       ELSE r : r \in tab}

\* variant: an UPDATE that also clears the reopen columns
encerrar_update_clearing(tab, iid, dt, por, obs, ef) ==
    {IF r.id = iid
       THEN [r EXCEPT !.status = "Encerrada",
                      !.encerrada_em = Some(dt),
                      !.encerrada_por = Some(por),
                      !.encerramento_obs = Some(obs),
                      !.eficacia = Some(ef),
                      !.reaberta_em = NULL,
                      !.reaberta_por = NULL,
                      !.reabertura_motivo = NULL]
       ELSE r : r \in tab}

\* the UPDATE of encerrar_inspecao: its own transaction
encerrar_update(tab, iid, dt, por, obs, ef) ==
    {IF r.id = iid
       THEN [r EXCEPT !.status = "Encerrada",
                      !.encerrada_em = Some(dt),
                      !.encerrada_por = Some(por),
                      !.encerramento_obs = Some(obs),
                      !.eficacia = Some(ef)]
       ELSE r : r \in tab}

\* variant: an UPDATE that also clears the closure columns
reabrir_update_clearing(tab, iid, dt, por, motivo) ==
    {IF r.id = iid
       THEN [r EXCEPT !.status = "Em ação",
                      !.encerrada_em = NULL,
                      !.encerrada_por = NULL,
                      !.encerramento_obs = NULL,
                      !.eficacia = NULL,
                      !.reaberta_em = Some(dt),
                      !.reaberta_por = Some(por),
                      !.reabertura_motivo = Some(motivo)]
       ELSE r : r \in tab}

\* the UPDATE of reabrir_inspecao: its own transaction
reabrir_update(tab, iid, dt, por, motivo) ==
    {IF r.id = iid
       THEN [r EXCEPT !.status = "Em ação",
                      !.reaberta_em = Some(dt),
                      !.reaberta_por = Some(por),
                      !.reabertura_motivo = Some(motivo)]
       ELSE r : r \in tab}

\* the whole call, when nothing fails: the UPDATE, then add_photos if images
encerrar_inspecao(tab, fot, iid, dt, por, obs, ef, images) ==
    [inspecoes |-> encerrar_update(tab, iid, dt, por, obs, ef),
     fotos |-> IF images # <<>> THEN add_photos(fot, iid, images, "encerramento")
               ELSE fot]

reabrir_inspecao(tab, fot, iid, dt, por, motivo, images) ==
    [inspecoes |-> reabrir_update(tab, iid, dt, por, motivo),
     fotos |-> IF images # <<>> THEN add_photos(fot, iid, images, "reabertura")
               ELSE fot]

RECURSIVE OrderByIdAsc(_)
\* variant: ORDER BY id, oldest first
OrderByIdAsc(tab) ==
    IF tab = {} THEN <<>>
    ELSE LET top == RowOf(tab, Max(Ids(tab)))
         IN  OrderByIdAsc(tab \ {top}) \o <<top>>

RECURSIVE OrderByIdDesc(_)
\* SELECT ... ORDER BY id DESC
OrderByIdDesc(tab) ==
    IF tab = {} THEN <<>>
    ELSE LET top == RowOf(tab, Max(Ids(tab)))
         IN  <<top>> \o OrderByIdDesc(tab \ {top})

fetch_df(tab) == OrderByIdDesc(tab)

\* if f_status: df = df[df["status"].isin(f_status)]
InStatus(r, f_status) == r.status \in f_status

filter_status(d, f_status) ==
    IF f_status # {} THEN SelectSeq(d, LAMBDA r : InStatus(r, f_status)) ELSE d

----------------------------------------------------------------------------
(* Reference codes (PEPs).  A code is a sequence of characters. *)

IsSpace(ch) == ch = " "

RECURSIVE lstrip(_)
lstrip(c) == IF c # <<>> /\ IsSpace(Head(c)) THEN lstrip(Tail(c)) ELSE c

RECURSIVE rstrip(_)
rstrip(c) ==
    IF c # <<>> /\ IsSpace(c[Len(c)]) THEN rstrip(SubSeq(c, 1, Len(c) - 1)) ELSE c

\* str.strip()
strip(c) == rstrip(lstrip(c))

RECURSIVE StripNonEmpty(_)
\* [c.strip() for c in codes if c and c.strip()]
StripNonEmpty(codes) ==
    IF codes = <<>> THEN <<>>
    ELSE (IF Head(codes) # <<>> /\ strip(Head(codes)) # <<>>
            THEN <<strip(Head(codes))>> ELSE <<>>)
         \o StripNonEmpty(Tail(codes))

\* variant: a plain INSERT into a column that is not UNIQUE
InsertAlways(tab, code) == tab \cup {[id |-> NextId(tab), code |-> code]}

\* INSERT OR IGNORE INTO peps (code): column code is UNIQUE
InsertOrIgnore(tab, code) ==
    IF \E p \in tab : p.code = code THEN tab
    ELSE tab \cup {[id |-> NextId(tab), code |-> code]}

RECURSIVE InsertLoop(_, _, _)
\* for code in codes: execute the INSERT; inserted += 1
InsertLoop(tab, codes, inserted) ==
    IF codes = <<>> THEN [peps |-> tab, n |-> inserted]
    ELSE InsertLoop(InsertOrIgnore(tab, Head(codes)), Tail(codes), inserted + 1)

add_peps_bulk(tab, codes) ==
    LET cleaned == StripNonEmpty(codes)
    IN  IF cleaned = <<>> THEN [peps |-> tab, n |-> 0]
        ELSE InsertLoop(tab, cleaned, 0)

\* raw codes a caller may submit
RawCodes == {<<" ">>, <<"A", "1">>, <<" ", "A", "1", " ">>, <<"B", "2">>}

RECURSIVE SeqsUpTo(_, _)
SeqsUpTo(S, n) ==
    IF n = 0 THEN {<<>>}
    ELSE LET shorter == SeqsUpTo(S, n - 1)
         IN  shorter \cup {Append(q, x) : q \in shorter, x \in S}

CodeLists == SeqsUpTo(RawCodes, MaxCodes)

----------------------------------------------------------------------------
(* State shared by the specifications *)

\* no row displayed
NoRow == [id |-> 0, status |-> ""]
\* no call of the running script outstanding
NoPend == [op |-> "", iid |-> 0, images |-> <<>>, stage |-> "", dt |-> 0]
\* no listing displayed
NoListing == [f_status |-> {}, rows |-> <<>>, shown |-> FALSE]

\* an event: who, what, on which id, with which text argument, its numeric
\* outcome, and the list of codes of a reference-code call
Ev(ses, op, iid, txt, n, codes) ==
    [ses |-> ses, op |-> op, iid |-> iid, txt |-> txt, n |-> n, codes |-> codes]

Init ==
    /\ inspecoes = {}
    /\ fotos = {}
    /\ peps = {}
    /\ now = 1
    /\ is_quality = [s \in Sessions |-> FALSE]
    /\ menu = [s \in Sessions |-> CONSULTAR]
    /\ row = [s \in Sessions |-> NoRow]
    /\ pend = [s \in Sessions |-> NoPend]
    /\ event = Ev("", "start", 0, "", 0, <<>>)
    /\ submitted = {}
    /\ df = NoListing

\* the rec dict the Nova RNC form builds: "status": "Aberta"
FormRec == [status |-> "Aberta"]

----------------------------------------------------------------------------
(* SpecApi: the data-layer functions called directly *)

\* insert_inspecao(rec, images), for every status a rec may carry
CallInsert(limit, Imgs) ==
    /\ Cardinality(inspecoes) < limit
    /\ \E st \in STATUS_OPTS, images \in Imgs :
         LET res == insert_inspecao(inspecoes, fotos, [status |-> st], images)
         IN  /\ inspecoes' = res.inspecoes
             /\ fotos' = res.fotos
             /\ event' = Ev("", "insert_inspecao", res.id, st, Len(images), <<>>)
    /\ df' = NoListing
    /\ UNCHANGED <<peps, now, is_quality, menu, row, pend, submitted>>

\* the Nova RNC form submitted by a single user: insert_inspecao(rec, imgs)
FormRNC ==
    /\ Cardinality(inspecoes) < MaxRows
    /\ \E images \in ImageLists :
         LET res == insert_inspecao(inspecoes, fotos, FormRec, images)
         IN  /\ inspecoes' = res.inspecoes
             /\ fotos' = res.fotos
             /\ event' = Ev("", "form_rnc", res.id, "", Len(images), <<>>)
    /\ df' = NoListing
    /\ UNCHANGED <<peps, now, is_quality, menu, row, pend, submitted>>

\* encerrar_inspecao(iid, por, obs, eficacia, images), whatever the row's status
CallEncerrar ==
    /\ now <= MaxCalls
    /\ \E iid \in 1..MaxRows, por \in Callers, obs \in Notes, ef \in Verdicts,
          images \in ImageLists :
         LET res == encerrar_inspecao(inspecoes, fotos, iid, now, por, obs, ef, images)
         IN  /\ inspecoes' = res.inspecoes
             /\ fotos' = res.fotos
             /\ event' = Ev("", "encerrar_inspecao", iid, ef, now, <<>>)
    /\ now' = now + 1
    /\ df' = NoListing
    /\ UNCHANGED <<peps, is_quality, menu, row, pend, submitted>>

\* reabrir_inspecao(iid, por, motivo, images), whatever the row's status
CallReabrir ==
    /\ now <= MaxCalls
    /\ \E iid \in 1..MaxRows, por \in Callers, motivo \in Notes, images \in ImageLists :
         LET res == reabrir_inspecao(inspecoes, fotos, iid, now, por, motivo, images)
         IN  /\ inspecoes' = res.inspecoes
             /\ fotos' = res.fotos
             /\ event' = Ev("", "reabrir_inspecao", iid, motivo, now, <<>>)
    /\ now' = now + 1
    /\ df' = NoListing
    /\ UNCHANGED <<peps, is_quality, menu, row, pend, submitted>>

NextApi == CallInsert(MaxRows, NoImages) \/ FormRNC \/ CallEncerrar \/ CallReabrir

SpecApi == Init /\ [][NextApi]_vars

----------------------------------------------------------------------------
(* SpecFetch: the Consultar page's listing over tables of every status *)

\* df = fetch_df(), then the status filter of the page
CallFetch ==
    /\ \E f_status \in SUBSET STATUS_OPTS :
         df' = [f_status |-> f_status,
                rows |-> filter_status(fetch_df(inspecoes), f_status),
                shown |-> TRUE]
    /\ event' = Ev("", "fetch_df", 0, "", 0, <<>>)
    /\ UNCHANGED <<inspecoes, fotos, peps, now, is_quality, menu, row, pend,
                   submitted>>

NextFetch == CallInsert(MaxListed, NoImages) \/ CallFetch

SpecFetch == Init /\ [][NextFetch]_vars

----------------------------------------------------------------------------
(* SpecPeps: add_peps_bulk called directly *)

CallAddPepsBulk ==
    /\ \E codes \in CodeLists :
         LET res == add_peps_bulk(peps, codes)
         IN  /\ peps' = res.peps
             /\ event' = Ev("", "add_peps_bulk", 0, "", res.n, codes)
             /\ submitted' = submitted \cup Range(codes)
    /\ UNCHANGED <<inspecoes, fotos, now, is_quality, menu, row, pend, df>>

NextPeps == CallAddPepsBulk

SpecPeps == Init /\ [][NextPeps]_vars

----------------------------------------------------------------------------
(* The page, driven by the sessions.  A step is one script run, cut before *)
(* each transaction that writes, where another session's may come between. *)
(* Imgs is the set of uploads a form may carry and Oks the outcomes of a   *)
(* writing transaction (TRUE: commits, FALSE: raises).                     *)

\* a script run of s is under way: the session takes no other step
Busy(s) == pend[s] # NoPend

\* the row the Consultar page shows: sel_id when listed, else the number
\* input's default, the first (newest) id; nothing when the table is empty.
\* (A number input that falls back to its default is the step Ver.)
Displayed(tab, sel) ==
    IF fetch_df(tab) = <<>> THEN NoRow
    ELSE LET id0 == IF sel \in Ids(tab) THEN sel ELSE fetch_df(tab)[1].id
         IN  [id |-> id0, status |-> RowOf(tab, id0).status]

\* what a run leaves on the page of menu m
Render(m, tab, sel) == IF m = CONSULTAR THEN Displayed(tab, sel) ELSE NoRow

\* variant: the submit buttons never disabled
can_close_always(r) == TRUE
can_reopen_always(r) == TRUE

\* can_close = row["status"] != "Encerrada"
can_close(r) == r.status # "Encerrada"

\* can_reopen = row["status"] == "Encerrada"
can_reopen(r) == r.status = "Encerrada"

\* "Entrar como Qualidade" pressed with pwd typed
Entrar(s) ==
    /\ ~Busy(s)
    /\ \E pwd \in Passwords :
         LET q == is_quality[s] \/ (pwd = QUALITY_PASS)
             m == IF q # is_quality[s] THEN MenuOptions(q)[1] ELSE menu[s]
         IN  /\ is_quality' = [is_quality EXCEPT ![s] = q]
             /\ menu' = [menu EXCEPT ![s] = m]
             /\ row' = [row EXCEPT ![s] = Render(m, inspecoes, row[s].id)]
             /\ event' = Ev(s, "entrar", 0, pwd, IF pwd = QUALITY_PASS THEN 1 ELSE 0, <<>>)
    /\ UNCHANGED <<inspecoes, fotos, peps, now, pend, submitted, df>>

\* "Sair" pressed: the button exists only while is_quality
Sair(s) ==
    /\ ~Busy(s)
    /\ is_quality[s]
    /\ is_quality' = [is_quality EXCEPT ![s] = FALSE]
    /\ menu' = [menu EXCEPT ![s] = MenuOptions(FALSE)[1]]
    /\ row' = [row EXCEPT ![s] = Render(MenuOptions(FALSE)[1], inspecoes, row[s].id)]
    /\ event' = Ev(s, "sair", 0, "", 0, <<>>)
    /\ UNCHANGED <<inspecoes, fotos, peps, now, pend, submitted, df>>

\* the sidebar radio: one of the options the profile is offered
Navegar(s) ==
    /\ ~Busy(s)
    /\ \E m \in Range(MenuOptions(is_quality[s])) :
         /\ menu' = [menu EXCEPT ![s] = m]
         /\ row' = [row EXCEPT ![s] = Render(m, inspecoes, row[s].id)]
         /\ event' = Ev(s, "menu", 0, "", 0, <<>>)
    /\ UNCHANGED <<inspecoes, fotos, peps, now, is_quality, pend, submitted, df>>

\* "Ver RNC (ID)" set to an id (or the page reloaded on the same id)
Ver(s) ==
    /\ ~Busy(s)
    /\ menu[s] = CONSULTAR
    /\ \E sel_id \in Ids(inspecoes) :
         /\ row' = [row EXCEPT ![s] = Displayed(inspecoes, sel_id)]
         /\ event' = Ev(s, "ver", 0, "", 0, <<>>)
    /\ UNCHANGED <<inspecoes, fotos, peps, now, is_quality, menu, pend, submitted, df>>

\* "Salvar RNC": insert_inspecao(rec, imgs) in one transaction, which either
\* commits or raises and is rolled back
SalvarRNC(s, Imgs, Oks) ==
    /\ ~Busy(s)
    /\ menu[s] = NOVA
    /\ Cardinality(inspecoes) < MaxRNC
    /\ \E imgs \in Imgs, ok \in Oks :
         LET res == insert_inspecao(inspecoes, fotos, FormRec, imgs)
         IN  IF ok
               THEN /\ inspecoes' = res.inspecoes
                    /\ fotos' = res.fotos
                    /\ event' = Ev(s, "salvar", res.id, "ok", Len(imgs), <<>>)
               ELSE /\ UNCHANGED <<inspecoes, fotos>>
                    /\ event' = Ev(s, "salvar", 0, "erro", Len(imgs), <<>>)
    /\ UNCHANGED <<peps, now, is_quality, menu, row, pend, submitted, df>>

\* "Encerrar RNC" pressed: the button was enabled on the page the last run
\* rendered (is_quality, a row displayed, can_close of that row).  The run
\* the press starts reads the row again (fetch_df) and renders it; the
\* `disabled` it computes for the button does not withdraw the press, so
\* `if sub:` goes on to call encerrar_inspecao.
Encerrar(s, Imgs) ==
    /\ ~Busy(s)
    /\ menu[s] = CONSULTAR
    /\ row[s] # NoRow
    /\ is_quality[s]
    /\ can_close(row[s])
    /\ now <= MaxClock
    /\ \E imgs \in Imgs :
         /\ row' = [row EXCEPT ![s] = Displayed(inspecoes, row[s].id)]
         /\ pend' = [pend EXCEPT ![s] =
                       [op |-> "encerrar", iid |-> row[s].id, images |-> imgs,
                        stage |-> "update", dt |-> 0]]
         /\ event' = Ev(s, "encerrar", row[s].id, "sub", 0, <<>>)
    /\ UNCHANGED <<inspecoes, fotos, peps, now, is_quality, menu, submitted, df>>

\* "Reabrir RNC" pressed: enabled by can_reopen of the row displayed
Reabrir(s, Imgs) ==
    /\ ~Busy(s)
    /\ menu[s] = CONSULTAR
    /\ row[s] # NoRow
    /\ is_quality[s]
    /\ can_reopen(row[s])
    /\ now <= MaxClock
    /\ \E imgs \in Imgs :
         /\ row' = [row EXCEPT ![s] = Displayed(inspecoes, row[s].id)]
         /\ pend' = [pend EXCEPT ![s] =
                       [op |-> "reabrir", iid |-> row[s].id, images |-> imgs,
                        stage |-> "update", dt |-> 0]]
         /\ event' = Ev(s, "reabrir", row[s].id, "sub", 0, <<>>)
    /\ UNCHANGED <<inspecoes, fotos, peps, now, is_quality, menu, submitted, df>>

\* the table after the UPDATE of call p with the form's values
Updated(p, dt, por, txt, ef) ==
    IF p.op = "encerrar" THEN encerrar_update(inspecoes, p.iid, dt, por, txt, ef)
    ELSE reabrir_update(inspecoes, p.iid, dt, por, txt)

\* the UPDATE of the encerrar_inspecao / reabrir_inspecao call of the run, a
\* transaction of its own: it commits, leaving add_photos to be called if
\* there are images, or raises.  (The form's values are drawn here.)
Update(s, Oks) ==
    /\ pend[s].stage = "update"
    /\ \E por \in Names, txt \in Notes, ef \in Verdicts, ok \in Oks :
         IF ok
           THEN /\ inspecoes' = Updated(pend[s], now, por, txt, ef)
                /\ pend' = [pend EXCEPT ![s] =
                              IF pend[s].images # <<>>
                                THEN [pend[s] EXCEPT !.stage = "fotos", !.dt = now]
                                ELSE NoPend]
                /\ event' = Ev(s, pend[s].op, pend[s].iid,
                               IF pend[s].images # <<>> THEN "update" ELSE "ok",
                               now, <<>>)
           ELSE /\ inspecoes' = inspecoes
                /\ pend' = [pend EXCEPT ![s] = NoPend]
                /\ event' = Ev(s, pend[s].op, pend[s].iid, "erro", now, <<>>)
    /\ now' = now + 1
    /\ UNCHANGED <<fotos, peps, is_quality, menu, row, submitted, df>>

\* variant: every photo tagged as an opening photo
Tipo_abertura(op) == "abertura"

\* stage tag of the photos of a call
Tipo(op) == IF op = "encerrar" THEN "encerramento" ELSE "reabertura"

\* the add_photos call that ends encerrar_inspecao / reabrir_inspecao: one
\* transaction, which either commits every photo or raises and commits none
AddPhotos(s) ==
    /\ pend[s].stage = "fotos"
    /\ \E ok \in BOOLEAN :
         /\ fotos' = IF ok
                       THEN add_photos(fotos, pend[s].iid, pend[s].images, Tipo(pend[s].op))
                       ELSE fotos
         /\ event' = Ev(s, pend[s].op, pend[s].iid, IF ok THEN "ok" ELSE "erro",
                        pend[s].dt, <<>>)
    /\ pend' = [pend EXCEPT ![s] = NoPend]
    /\ UNCHANGED <<inspecoes, peps, now, is_quality, menu, row, submitted, df>>

\* what a Quality user types as a new PEP, and the code column of a CSV
TypedCodes == {<<"A", "1">>, <<" ">>}
CsvColumns == {<< <<"A", "1">>, <<"A", "1">> >>}

\* "Adicionar PEP": if new_pep.strip(): n = add_peps_bulk([new_pep.strip()])
AdicionarPEP(s) ==
    /\ ~Busy(s)
    /\ menu[s] = GERENCIAR
    /\ \E new_pep \in TypedCodes :
         IF strip(new_pep) # <<>>
           THEN LET res == add_peps_bulk(peps, <<strip(new_pep)>>)
                IN  /\ peps' = res.peps
                    /\ submitted' = submitted \cup {strip(new_pep)}
                    /\ event' = Ev(s, "add_pep", 0, "", res.n, <<strip(new_pep)>>)
           ELSE /\ UNCHANGED <<peps, submitted>>
                /\ event' = Ev(s, "add_pep", 0, "", 0, <<>>)
    /\ UNCHANGED <<inspecoes, fotos, now, is_quality, menu, row, pend, df>>

\* a CSV with a column 'code' uploaded: n = add_peps_bulk(df_csv["code"]...)
ImportarCSV(s) ==
    /\ ~Busy(s)
    /\ menu[s] = GERENCIAR
    /\ \E codes \in CsvColumns :
         LET res == add_peps_bulk(peps, codes)
         IN  /\ peps' = res.peps
             /\ submitted' = submitted \cup Range(codes)
             /\ event' = Ev(s, "importar", 0, "", res.n, codes)
    /\ UNCHANGED <<inspecoes, fotos, now, is_quality, menu, row, pend, df>>

Next ==
    \E s \in Sessions :
        \/ Entrar(s)
        \/ Sair(s)
        \/ Navegar(s)
        \/ Ver(s)
        \/ SalvarRNC(s, NoImages, {TRUE})
        \/ Encerrar(s, NoImages)
        \/ Reabrir(s, NoImages)
        \/ Update(s, {TRUE})
        \/ AdicionarPEP(s)
        \/ ImportarCSV(s)

Spec == Init /\ [][Next]_vars

\* the session of the single-session specification
Solo == {"s1"}

NextTx ==
    \E s \in Solo :
        \/ Entrar(s)
        \/ Sair(s)
        \/ Navegar(s)
        \/ Ver(s)
        \/ SalvarRNC(s, ImageLists, BOOLEAN)
        \/ Encerrar(s, ImageLists)
        \/ Reabrir(s, ImageLists)
        \/ Update(s, BOOLEAN)
        \/ AddPhotos(s)

SpecTx == Init /\ [][NextTx]_vars

----------------------------------------------------------------------------
(* Properties of the data layer (SpecApi) *)

\* the status stored for id iid
StoredStatus(iid) == RowOf(inspecoes, iid).status

ClosureFields(r) ==
    <<r.encerrada_em, r.encerrada_por, r.encerramento_obs, r.eficacia>>

ReopenFields(r) == <<r.reaberta_em, r.reaberta_por, r.reabertura_motivo>>

C2_CloseThenReopen ==
    \A r \in inspecoes, por \in Callers, obs \in Notes, ef \in EFICACIA_OPTS,
       por2 \in Callers, motivo \in Notes, im \in ImageLists, im2 \in ImageLists :
        LET c == encerrar_inspecao(inspecoes, fotos, r.id, now, por, obs, ef, im)
            o == reabrir_inspecao(c.inspecoes, c.fotos, r.id, now + 1, por2, motivo, im2)
            r2 == RowOf(o.inspecoes, r.id)
        IN  /\ ClosureFields(r2) = <<Some(now), Some(por), Some(obs), Some(ef)>>
            /\ r2.status = "Em ação"

\* a record was closed and, by the next call, reopened
C2_Witness ==
    /\ event.op = "reabrir_inspecao"
    /\ \E r \in inspecoes :
         /\ r.id = event.iid
         /\ r.status = "Em ação"
         /\ r.reaberta_em = Some(event.n)
         /\ r.encerrada_em = Some(event.n - 1)
         /\ r.eficacia # NULL

\* C3: from every table, for every record, a second close of the same id
\* is carried out like the first: afterwards the closure fields hold the
\* second call's values and the status is "Encerrada".
C3_CloseTwice ==
    \A r \in inspecoes, por \in Callers, obs \in Notes, ef \in EFICACIA_OPTS,
       por2 \in Callers, obs2 \in Notes, ef2 \in EFICACIA_OPTS,
       im \in ImageLists, im2 \in ImageLists :
        LET c1 == encerrar_inspecao(inspecoes, fotos, r.id, now, por, obs, ef, im)
            c2 == encerrar_inspecao(c1.inspecoes, c1.fotos, r.id, now + 1,
                                    por2, obs2, ef2, im2)
            r2 == RowOf(c2.inspecoes, r.id)
        IN  /\ ClosureFields(r2) = <<Some(now + 1), Some(por2), Some(obs2), Some(ef2)>>
            /\ r2.status = "Encerrada"
            /\ Cardinality({p \in c2.fotos : p.tipo = "encerramento"})
                 = Cardinality({p \in fotos : p.tipo = "encerramento"}) + Len(im) + Len(im2)

\* a record created with a photo was closed twice in a row, each time with
\* a photo: it holds the second call's values
C3_Witness ==
    /\ event.op = "encerrar_inspecao"
    /\ event.n = 2
    /\ \E r \in inspecoes :
         /\ r.id = event.iid
         /\ r.status = "Encerrada"
         /\ ClosureFields(r) = <<Some(2), Some("bia"), Some("ok"), Some(event.txt)>>
         /\ r.reaberta_em = NULL
         /\ {<<p.id, p.inspecao_id, p.tipo>> : p \in fotos}
              = {<<1, r.id, "abertura">>, <<2, r.id, "encerramento">>,
                 <<3, r.id, "encerramento">>}

----------------------------------------------------------------------------
(* Properties of the filtered listing (SpecFetch) *)

Descending(d) == \A i \in 1..(Len(d) - 1) : d[i].id > d[i + 1].id

Exactly(d, f_status) ==
    /\ Range(d) = {r \in inspecoes : r.status \in f_status}
    /\ Len(d) = Cardinality(Range(d))

\* C7: for every table and every non-empty set S of statuses, the filtered
\* fetch returns exactly the records whose status is in S, each once, in
\* strictly descending id order; so does the listing the page displays.
C7_FilteredFetch ==
    /\ \A S \in (SUBSET STATUS_OPTS) \ {{}} :
         LET d == filter_status(fetch_df(inspecoes), S)
         IN  Exactly(d, S) /\ Descending(d)
    /\ (df.shown /\ df.f_status # {}) =>
         (Exactly(df.rows, df.f_status) /\ Descending(df.rows))

\* the filter {"Encerrada"} listed two records, newest first, and left one out
C7_Witness ==
    /\ df.shown
    /\ df.f_status = {"Encerrada"}
    /\ Len(df.rows) = 2
    /\ df.rows[1].id > df.rows[2].id
    /\ Cardinality(inspecoes) = 3

----------------------------------------------------------------------------
(* Properties of the reference-code list (SpecPeps) *)

Codes(tab) == {p.code : p \in tab}

A1 == <<"A", "1">>
B2 == <<"B", "2">>

C6_ReturnsRowsAdded ==
    [][event'.op = "add_peps_bulk" =>
         /\ event'.n = Cardinality(peps') - Cardinality(peps)
         /\ (Len(event'.codes) = 1 /\ strip(event'.codes[1]) \in Codes(peps))
              => event'.n = 0]_vars

----------------------------------------------------------------------------
(* Properties of the page (Spec, SpecTx) *)

\* the status of record i before and after a step
StatusChange(i) == <<RowOf(inspecoes, i).status, RowOf(inspecoes', i).status>>

\* C4, as claimed: every change of a record's status is Aberta -> Encerrada
\* by close or Encerrada -> Em ação by reopen.
C4_TwoTransitions ==
    [][\A i \in Ids(inspecoes) :
         StatusChange(i)[1] # StatusChange(i)[2] =>
           \/ StatusChange(i) = <<"Aberta", "Encerrada">> /\ event'.op = "encerrar"
           \/ StatusChange(i) = <<"Encerrada", "Em ação">> /\ event'.op = "reabrir"]_vars

\* C4, amended: every change of a record's status is Aberta -> Encerrada or
\* Em ação -> Encerrada by close, or Encerrada -> Em ação by reopen.
C4_ThreeTransitions ==
    [][\A i \in Ids(inspecoes) :
         StatusChange(i)[1] # StatusChange(i)[2] =>
           \/ StatusChange(i) = <<"Aberta", "Encerrada">> /\ event'.op = "encerrar"
           \/ StatusChange(i) = <<"Em ação", "Encerrada">> /\ event'.op = "encerrar"
           \/ StatusChange(i) = <<"Encerrada", "Em ação">> /\ event'.op = "reabrir"]_vars

\* a record reopened at one reading of the clock was closed at the next
C4_Witness ==
    /\ event.op = "encerrar"
    /\ \E r \in inspecoes :
         /\ r.id = event.iid
         /\ r.status = "Encerrada"
         /\ r.encerrada_em = Some(event.n)
         /\ r.reaberta_em = Some(event.n - 1)

\* the UPDATE of the last close/reopen call is in the table
CallUpdateVisible ==
    \E r \in inspecoes :
        /\ r.id = event.iid
        /\ \/ event.op = "encerrar" /\ r.encerrada_em = Some(event.n)
           \/ event.op = "reabrir" /\ r.reaberta_em = Some(event.n)

\* C8, as claimed: a close or reopen that fails at any step, the insertion
\* of a photo row included, leaves its status update uncommitted.
C8_AllOrNothing ==
    (event.op \in {"encerrar", "reabrir"} /\ event.txt = "erro") => ~CallUpdateVisible

\* a step that changes a table
DataChanged == inspecoes' # inspecoes \/ fotos' # fotos \/ peps' # peps

\* C9: the flag of every session is false at the start, rises only in a
\* login of that session with the configured secret (and every such login
\* raises it), falls only in a logout of that session (and every logout
\* lowers it); and every step that changes a table is taken by a session
\* whose flag is true when it takes it.
C9_RoleGate ==
    /\ \A s \in Sessions : ~is_quality[s]
    /\ [][/\ \A s \in Sessions :
               /\ (~is_quality[s] /\ is_quality'[s]) =>
                    event' = Ev(s, "entrar", 0, QUALITY_PASS, 1, <<>>)
               /\ (is_quality[s] /\ ~is_quality'[s]) =>
                    event' = Ev(s, "sair", 0, "", 0, <<>>)
               /\ (event' # event /\ event'.ses = s /\ event'.op = "entrar") =>
                    is_quality'[s] = (is_quality[s] \/ event'.txt = QUALITY_PASS)
               /\ (event' # event /\ event'.ses = s /\ event'.op = "sair") =>
                    ~is_quality'[s]
           /\ DataChanged => (event'.ses \in Sessions /\ is_quality[event'.ses])]_vars

\* one session created, closed and reopened a record and added a reference
\* code while the other, never logged in, stayed a visitor
C9_Witness ==
    /\ is_quality["s1"] /\ ~is_quality["s2"]
    /\ event = Ev("s1", "add_pep", 0, "", 1, <<A1>>)
    /\ \E r \in inspecoes : r.status = "Em ação"
    /\ peps # {}

\* record i is closed / reopened by the step
Closes(i) == RowOf(inspecoes', i).encerrada_em # RowOf(inspecoes, i).encerrada_em
Reopens(i) == RowOf(inspecoes', i).reaberta_em # RowOf(inspecoes, i).reaberta_em

\* C10, as claimed: a close is applied only when the stored status at the
\* moment of the write is not "Encerrada", a reopen only when it is.
C10_GuardAtWrite ==
    [][\A i \in Ids(inspecoes) :
         /\ Closes(i) => RowOf(inspecoes, i).status # "Encerrada"
         /\ Reopens(i) => RowOf(inspecoes, i).status = "Encerrada"]_vars

\* C10, amended: a close is applied only by a script run started by
\* pressing "Encerrar RNC" on a page that displayed that record with a
\* status other than "Encerrada", and a reopen only by one started on a
\* page that displayed it "Encerrada"; the stored status at the moment of
\* the write may differ.
C10_GuardAtRead ==
    [][/\ \A i \in Ids(inspecoes) :
            /\ Closes(i) =>
                 /\ event'.ses \in Sessions
                 /\ pend[event'.ses].op = "encerrar"
                 /\ pend[event'.ses].iid = i
            /\ Reopens(i) =>
                 /\ event'.ses \in Sessions
                 /\ pend[event'.ses].op = "reabrir"
                 /\ pend[event'.ses].iid = i
       /\ \A s \in Sessions :
            /\ (pend[s] = NoPend /\ pend'[s].op = "encerrar") =>
                 (row[s].id = pend'[s].iid /\ row[s].status # "Encerrada")
            /\ (pend[s] = NoPend /\ pend'[s].op = "reabrir") =>
                 (row[s].id = pend'[s].iid /\ row[s].status = "Encerrada")]_vars

\* s2 closed a record that the run doing so read as already "Encerrada"
C10_Witness ==
    /\ event.op = "encerrar" /\ event.ses = "s2" /\ event.txt = "ok"
    /\ row["s2"].id = event.iid
    /\ row["s2"].status = "Encerrada"
    /\ \E r \in inspecoes : r.id = event.iid /\ r.encerrada_em = Some(event.n)

----------------------------------------------------------------------------
(* Properties of the photo table (SpecTx) *)

\* the photo rows the step inserts
NewPhotos == fotos' \ fotos

\* the tag each operation is to give its photos
StageTag(op) ==
    CASE op = "salvar" -> "abertura"
      [] op = "encerrar" -> "encerramento"
      [] op = "reabrir" -> "reabertura"
      [] OTHER -> "none"

\* photo p belongs to a record that exists and that went through the stage
\* its tag names
PhotoOwned(p) ==
    \E r \in inspecoes :
        /\ r.id = p.inspecao_id
        /\ p.tipo \in {"abertura", "encerramento", "reabertura"}
        /\ p.tipo = "encerramento" => r.encerrada_em # NULL
        /\ p.tipo = "reabertura" => r.reaberta_em # NULL

\* C11: every photo row references an existing record and carries the tag
\* of the operation that inserted it (abertura for create, encerramento for
\* close, reabertura for reopen), and no step changes or removes a photo row
\* or a record; the same holds of a close or reopen called from any
\* reachable state with the id of any record.
C11_PhotoRows ==
    /\ [](\A p \in fotos : PhotoOwned(p))
    /\ [](\A r \in inspecoes, im \in ImageLists :
            LET c == encerrar_inspecao(inspecoes, fotos, r.id, now, "ana", "ok", "Eficaz", im)
                o == reabrir_inspecao(inspecoes, fotos, r.id, now, "ana", "ok", im)
            IN  /\ fotos \subseteq c.fotos /\ fotos \subseteq o.fotos
                /\ Cardinality(c.fotos \ fotos) = Len(im)
                /\ Cardinality(o.fotos \ fotos) = Len(im)
                /\ \A p \in c.fotos \ fotos :
                     p.inspecao_id = r.id /\ p.tipo = "encerramento"
                /\ \A p \in o.fotos \ fotos :
                     p.inspecao_id = r.id /\ p.tipo = "reabertura")
    /\ [][/\ fotos \subseteq fotos'
          /\ Ids(inspecoes) \subseteq Ids(inspecoes')
          /\ \A p \in NewPhotos :
               /\ p.inspecao_id = event'.iid
               /\ p.inspecao_id \in Ids(inspecoes')
               /\ p.tipo = StageTag(event'.op)
               /\ p.id \notin {q.id : q \in fotos}]_vars

\* a record created, closed and reopened, each time with a photo, holds one
\* photo of each stage
C11_Witness ==
    /\ event.op = "reabrir" /\ event.txt = "ok"
    /\ {<<p.id, p.inspecao_id, p.tipo>> : p \in fotos}
         = {<<1, event.iid, "abertura">>, <<2, event.iid, "encerramento">>,
            <<3, event.iid, "reabertura">>}
    /\ \E r \in inspecoes : r.id = event.iid /\ r.status = "Em ação"

----------------------------------------------------------------------------
(* Properties of the closure and reopen fields (SpecTx) *)

NoClosure == <<NULL, NULL, NULL, NULL>>
NoReopen == <<NULL, NULL, NULL>>

\* C12: a record's closure fields are empty when it is created and are
\* written only by a close of that record, its reopen fields are empty when
\* it is created and are written only by a reopen of that record; so a
\* record never closed has empty closure fields, one never reopened has
\* empty reopen fields, and every record with status "Aberta" has both
\* empty.
C12_FieldsByOwnOperation ==
    /\ [](\A r \in inspecoes :
            /\ r.status = "Aberta" =>
                 (ClosureFields(r) = NoClosure /\ ReopenFields(r) = NoReopen)
            /\ r.encerrada_em = NULL => ClosureFields(r) = NoClosure
            /\ r.reaberta_em = NULL => ReopenFields(r) = NoReopen)
    /\ [](/\ \A st \in STATUS_OPTS :
               LET n == NewInspecao(NextId(inspecoes), [status |-> st])
               IN  ClosureFields(n) = NoClosure /\ ReopenFields(n) = NoReopen
          /\ \A r \in inspecoes :
               /\ ReopenFields(RowOf(encerrar_update(inspecoes, r.id, now, "ana", "ok", "Eficaz"), r.id))
                    = ReopenFields(r)
               /\ ClosureFields(RowOf(reabrir_update(inspecoes, r.id, now, "ana", "ok"), r.id))
                    = ClosureFields(r))
    /\ [][\A r \in inspecoes' :
            IF r.id \notin Ids(inspecoes)
              THEN /\ event'.op = "salvar"
                   /\ ClosureFields(r) = NoClosure
                   /\ ReopenFields(r) = NoReopen
              ELSE /\ ClosureFields(r) # ClosureFields(RowOf(inspecoes, r.id)) =>
                        (event'.op = "encerrar" /\ event'.iid = r.id)
                   /\ ReopenFields(r) # ReopenFields(RowOf(inspecoes, r.id)) =>
                        (event'.op = "reabrir" /\ event'.iid = r.id)]_vars

\* a record was closed with a photo and never reopened: its closure fields
\* are set and its reopen fields empty
C12_Witness ==
    /\ event.op = "encerrar" /\ event.txt = "ok"
    /\ \E r \in inspecoes :
         /\ r.id = event.iid
         /\ ClosureFields(r) = <<Some(event.n), Some("ana"), Some("ok"), Some("Eficaz")>>
         /\ ReopenFields(r) = NoReopen
    /\ \E p \in fotos : p.tipo = "encerramento"

====
